---- MODULE Spec2Model ----
(***************************************************************************)
(* gcnctrlusb: discovery, session establishment, read loop and teardown   *)
(* of the GameCube controller adapter, modelled from src/src/lib.rs.       *)
(*                                                                         *)
(* The host USB stack (libusb) is the environment: every call the library  *)
(* makes into it is recorded in `calls`, and its answers are inputs drawn  *)
(* with \E in the actions.                                                 *)
(***************************************************************************)
EXTENDS Integers, Sequences, FiniteSets, TLC

VARIABLES
    \* --- the host stack and the device ---
    config,        \* the device's first configuration descriptor
    kernelDriver,  \* interface numbers a kernel driver is attached to
    claimedBy,     \* interface number -> device handle holding the claim, 0 if none
    \* --- the library's objects ---
    adapter,       \* the Adapter: [usable, listens]
    handles,       \* device handle id -> what happened on that DeviceHandle
    listeners,     \* device handle id -> the Listener built on it
    calls,         \* host-stack calls issued by the last operation, in order
    lret,          \* what the last listen returned
    rret,          \* what the last read returned
    \* --- Scanner::find_adapter ---
    bus,           \* the devices the host stack enumerates
    enumOk,        \* whether Context::devices() succeeds
    found,         \* what find_adapter returned
    \* --- Controller::parse ---
    data,          \* a 9-byte sub-packet
    chosen,        \* a controller state chosen for encoding
    result,        \* what parse returned
    \* --- Controller::parse_packet ---
    bufA, bufB,    \* two 37-byte buffers
    slotsA, slotsB, \* what parse_packet returned for each
    \* --- examples/log.rs: main ---
    controllers,   \* the Cell behind the Mutex: the array the threads share
    mutex,         \* which thread holds the MutexGuard
    writerPc,      \* the reader thread's position
    writerVal,     \* the array its last successful read returned
    writerIdx,     \* how many ports of it `set` has copied into the Cell
    listener,      \* the reader thread's Listener
    renderPc,      \* the rendering thread's position
    drawn,         \* the ports `get` has copied out of the Cell
    stored         \* the array of the last `set` that completed

usbVars    == <<config, kernelDriver, claimedBy, adapter, handles, listeners,
                calls, lret, rret>>
scanVars   == <<bus, enumOk, found>>
parseVars  == <<data, chosen, result>>
packetVars == <<bufA, bufB, slotsA, slotsB>>
logVars    == <<controllers, mutex, writerPc, writerVal, writerIdx, listener,
                renderPc, drawn, stored>>
vars       == <<usbVars, scanVars, parseVars, packetVars, logVars>>

(***************************************************************************)
(* Bounds and program constants                                            *)
(***************************************************************************)
MaxListens == 2      \* listen calls made on the adapter
MaxDevices == 3      \* devices on the bus

VENDOR_ID  == 1406   \* 0x057e
PRODUCT_ID == 823    \* 0x0337
PacketLen  == 37     \* [u8; 37]
ActivateCmd == 19    \* 0x13

None    == [some |-> FALSE]
Some(x) == [some |-> TRUE, v |-> x]

(***************************************************************************)
(* Controller::parse and Controller::parse_packet                          *)
(***************************************************************************)
\* Bit n counted from the most significant end.
BitSet_msb(b, n) == (b \div (2 ^ (7 - n))) % 2 = 1

\* data[k] & (1 << n) != 0
BitSet(b, n) == (b \div (2 ^ n)) % 2 = 1

\* The whole byte instead of its upper nibble.
Shr4_noshift(b) == b

\* data[0] >> 4 on a u8
Shr4(b) == b \div 16

KindOf(nib) ==
    CASE nib = 1 -> "Wired"
      [] nib = 2 -> "Wireless"
      [] OTHER   -> "Unknown"

\* `d` is the Rust slice, 0-indexed there and 1-indexed here: data[k] is d[k+1].
parse(d) ==
    IF Shr4(d[1]) = 0 THEN None
    ELSE Some([kind      |-> KindOf(Shr4(d[1])),
               a         |-> BitSet(d[2], 0),
               b         |-> BitSet(d[2], 1),
               x         |-> BitSet(d[2], 2),
               y         |-> BitSet(d[2], 3),
               left      |-> BitSet(d[2], 4),
               right     |-> BitSet(d[2], 5),
               down      |-> BitSet(d[2], 6),
               up        |-> BitSet(d[2], 7),
               start     |-> BitSet(d[3], 0),
               z         |-> BitSet(d[3], 1),
               r         |-> BitSet(d[3], 2),
               l         |-> BitSet(d[3], 3),
               stick_x   |-> d[4],
               stick_y   |-> d[5],
               c_stick_x |-> d[6],
               c_stick_y |-> d[7],
               l_analog  |-> d[8],
               r_analog  |-> d[9]])

\* The slice taken one byte early, so that the padding byte is part of port 0.
Slice_one_early(d, lo, hi) == SubSeq(d, lo, hi - 1)

\* &data[lo..hi] of a Rust slice: elements lo .. hi-1, i.e. lo+1 .. hi here.
Slice(d, lo, hi) == SubSeq(d, lo + 1, hi)

parse_packet(d) ==
    << parse(Slice(d, 1, 10)),
       parse(Slice(d, 10, 19)),
       parse(Slice(d, 19, 28)),
       parse(Slice(d, 28, 37)) >>

(***************************************************************************)
(* Descriptor trees                                                        *)
(*                                                                         *)
(* An endpoint is its address; libusb derives the direction from bit 7.    *)
(* A descriptor (alternate setting) is [interface_number, setting_number,  *)
(* endpoints]; an interface is the sequence of its descriptors; a          *)
(* configuration is [number, interfaces].                                  *)
(***************************************************************************)
Direction(addr) == IF addr >= 128 THEN "In" ELSE "Out"

Desc(i, s, eps) == [interface_number |-> i, setting_number |-> s, endpoints |-> eps]

\* The adapter's real shape: one interface, one IN and one OUT endpoint.
CfgAdapter    == [number |-> 1, interfaces |-> << <<Desc(0, 0, <<129, 2>>)>> >>]
CfgNoIn       == [number |-> 1, interfaces |-> << <<Desc(0, 0, <<2>>)>> >>]
CfgNoOut      == [number |-> 1, interfaces |-> << <<Desc(0, 0, <<129>>)>> >>]
CfgNoInTwo    == [number |-> 1, interfaces |-> << <<Desc(0, 0, <<2>>)>>,
                                                  <<Desc(1, 0, <<3, 4>>)>> >>]
CfgEmpty      == [number |-> 1, interfaces |-> << >>]
CfgNoDesc     == [number |-> 1, interfaces |-> << << >> >>]
CfgPairThenNone == [number |-> 1, interfaces |-> << <<Desc(0, 0, <<129, 2>>)>>,
                                                    <<Desc(1, 0, << >>)>> >>]
CfgNoneThenPair == [number |-> 2, interfaces |-> << <<Desc(0, 0, << >>)>>,
                                                    <<Desc(1, 0, <<131, 4>>)>> >>]
CfgTwoPairs   == [number |-> 1, interfaces |-> << <<Desc(0, 0, <<129, 2>>)>>,
                                                  <<Desc(1, 0, <<131, 4>>)>> >>]
CfgSplitAlt   == [number |-> 1, interfaces |-> << <<Desc(0, 0, <<129>>),
                                                    Desc(0, 1, <<2>>)>> >>]

Configs == {CfgAdapter, CfgNoIn, CfgNoOut, CfgNoInTwo, CfgEmpty, CfgNoDesc,
            CfgPairThenNone, CfgNoneThenPair, CfgTwoPairs, CfgSplitAlt}

Interfaces == {0, 1}

\* interface_descriptor / endpoint_in / endpoint_out of listen
WalkNone == [idesc |-> None, ein |-> None, eout |-> None]

RECURSIVE WalkEndpoints(_, _)
WalkEndpoints(eps, st) ==
    IF eps = << >> THEN st
    ELSE WalkEndpoints(Tail(eps),
                       IF Direction(Head(eps)) = "In"
                       THEN [st EXCEPT !.ein  = Some(Head(eps))]
                       ELSE [st EXCEPT !.eout = Some(Head(eps))])

RECURSIVE WalkDescs(_, _)
WalkDescs(descs, st) ==
    IF descs = << >> THEN st
    ELSE WalkDescs(Tail(descs),
                   [WalkEndpoints(Head(descs).endpoints, st)
                        EXCEPT !.idesc = Some(Head(descs))])

\* The interface loop without the reset at the top of each interface.
RECURSIVE WalkInterfaces_keep(_, _)
WalkInterfaces_keep(ifs, st) ==
    IF ifs = << >> THEN st
    ELSE WalkInterfaces_keep(Tail(ifs), WalkDescs(Head(ifs), st))

RECURSIVE WalkInterfaces(_, _)
WalkInterfaces(ifs, st) ==
    IF ifs = << >> THEN st
    ELSE WalkInterfaces(Tail(ifs), WalkDescs(Head(ifs), WalkNone))

Walk(cfg) == WalkInterfaces(cfg.interfaces, WalkNone)

WalkFails(w) == ~w.idesc.some \/ ~w.ein.some \/ ~w.eout.some

(***************************************************************************)
(* Adapter::listen                                                         *)
(***************************************************************************)
\* A call into the host stack and its answer: "Ok", "Err", or for the
\* kernel-driver query "true" / "false" / "Err".
Call(op, arg, ret) == [op |-> op, arg |-> arg, data |-> << >>, ret |-> ret]
CallW(op, arg, bytes, ret) == [op |-> op, arg |-> arg, data |-> bytes, ret |-> ret]

Res(ok) == IF ok THEN "Ok" ELSE "Err"

\* How many calls of `cs` are `op` calls that succeeded.
RECURSIVE CountOk(_, _)
CountOk(cs, op) ==
    IF cs = << >> THEN 0
    ELSE (IF Head(cs).op = op /\ Head(cs).ret = "Ok" THEN 1 ELSE 0)
             + CountOk(Tail(cs), op)

\* The host stack's answers to one listen: whether each call succeeds.
\* listen stops at the first call that fails, so the answers that matter are
\* which call (if any) is the first to fail and what the driver query says.
ListenSteps == {"open", "cfg", "detach", "setcfg", "claim", "setalt", "write"}

ListenInput(fail, kda) ==
    [open   |-> fail # "open",   cfg   |-> fail # "cfg",   kda    |-> kda,
     detach |-> fail # "detach", setcfg |-> fail # "setcfg",
     claim  |-> fail # "claim",  setalt |-> fail # "setalt",
     write  |-> fail # "write"]

ListenInputs ==
    {ListenInput(f, k) : f \in ListenSteps \cup {"none"}, k \in BOOLEAN}

\* What libusb's DeviceHandle does when it goes out of scope: it releases the
\* interfaces claimed on it and closes the device.
HandleDrop(claimed) ==
    (IF claimed.some THEN <<Call("release_interface", claimed.v, "Ok")>> ELSE << >>)
        \o <<Call("close", 0, "Ok")>>

\* open failed: there is no handle.
ListenNoHandle(cs) ==
    [ret |-> "Usb", calls |-> cs, opened |-> FALSE, det |-> None,
     claim |-> None, act |-> 0, lst |-> None]

\* try! returned early: `handle` is dropped, no Listener exists.
ListenAbort(ret, cs, det, claimed) ==
    [ret |-> ret, calls |-> cs \o HandleDrop(claimed), opened |-> TRUE,
     det |-> det, claim |-> None, act |-> 0, lst |-> None]

ListenOk(cs, det, iface, ein, has_kd) ==
    [ret |-> "Ok", calls |-> cs, opened |-> TRUE, det |-> det,
     claim |-> Some(iface), act |-> CountOk(cs, "write_interrupt"),
     lst |-> Some([buffer |-> [k \in 1..PacketLen |-> 0],
                   has_kernel_driver |-> has_kd,
                   interface |-> iface,
                   endpoint_in |-> ein])]

\* The host stack refuses set_configuration while another handle holds a claim
\* and refuses a claim on an interface that is already claimed.
AnyClaim(claims) == \E i \in Interfaces : claims[i] # 0

\* ListenSetup discarding the Results of set_active_configuration and
\* claim_interface instead of returning on their errors.
ListenSetup_ignore_busy(cfg, w, kd, claims, in, cs) ==
    LET idesc   == w.idesc.v
        iface   == idesc.interface_number
        active  == in.kda /\ iface \in kd
        setcfg  == in.setcfg /\ ~(\E i \in {0, 1} : claims[i] # 0)
        claim   == in.claim /\ claims[iface] = 0
        c1      == cs \o <<Call("kernel_driver_active", iface,
                                IF ~in.kda THEN "Err"
                                ELSE IF iface \in kd THEN "true" ELSE "false")>>
        c2      == IF active
                   THEN c1 \o <<Call("detach_kernel_driver", iface, Res(in.detach))>>
                   ELSE c1
        det     == IF active THEN Some(iface) ELSE None
        c3      == c2 \o <<Call("set_active_configuration", cfg.number, Res(setcfg))>>
        c4      == c3 \o <<Call("claim_interface", iface, Res(claim))>>
        c5      == c4 \o <<CallW("set_alternate_setting", iface,
                                 <<idesc.setting_number>>, Res(in.setalt))>>
        c6      == c5 \o <<CallW("write_interrupt", w.eout.v, <<ActivateCmd>>,
                                 Res(in.write))>>
    IN  IF active /\ ~in.detach THEN ListenAbort("Usb", c2, None, None)
        ELSE IF ~in.setalt THEN ListenAbort("Usb", c5, det, Some(iface))
        ELSE IF ~in.write THEN ListenAbort("Usb", c6, det, Some(iface))
        ELSE ListenOk(c6, det, iface, w.ein.v, active)

\* ListenSetup with the interface claimed before the configuration is set.
ListenSetup_claim_first(cfg, w, kd, claims, in, cs) ==
    LET idesc   == w.idesc.v
        iface   == idesc.interface_number
        active  == in.kda /\ iface \in kd
        setcfg  == in.setcfg
        claim   == in.claim /\ claims[iface] = 0
        c1      == cs \o <<Call("kernel_driver_active", iface,
                                IF ~in.kda THEN "Err"
                                ELSE IF iface \in kd THEN "true" ELSE "false")>>
        c2      == IF active
                   THEN c1 \o <<Call("detach_kernel_driver", iface, Res(in.detach))>>
                   ELSE c1
        det     == IF active THEN Some(iface) ELSE None
        c3      == c2 \o <<Call("claim_interface", iface, Res(claim))>>
        c4      == c3 \o <<Call("set_active_configuration", cfg.number, Res(setcfg))>>
        c5      == c4 \o <<CallW("set_alternate_setting", iface,
                                 <<idesc.setting_number>>, Res(in.setalt))>>
        c6      == c5 \o <<CallW("write_interrupt", w.eout.v, <<ActivateCmd>>,
                                 Res(in.write))>>
    IN  IF active /\ ~in.detach THEN ListenAbort("Usb", c2, None, None)
        ELSE IF ~claim THEN ListenAbort("Usb", c3, det, None)
        ELSE IF ~setcfg THEN ListenAbort("Usb", c4, det, Some(iface))
        ELSE IF ~in.setalt THEN ListenAbort("Usb", c5, det, Some(iface))
        ELSE IF ~in.write THEN ListenAbort("Usb", c6, det, Some(iface))
        ELSE ListenOk(c6, det, iface, w.ein.v, active)

\* ListenSetup returning the error of the kernel-driver query through try!.
ListenSetup_query_try(cfg, w, kd, claims, in, cs) ==
    LET idesc   == w.idesc.v
        iface   == idesc.interface_number
        active  == in.kda /\ iface \in kd                \* Ok(true)
        setcfg  == in.setcfg /\ ~AnyClaim(claims)
        claim   == in.claim /\ claims[iface] = 0
        c1      == cs \o <<Call("kernel_driver_active", iface,
                                IF ~in.kda THEN "Err"
                                ELSE IF iface \in kd THEN "true" ELSE "false")>>
        c2      == IF active
                   THEN c1 \o <<Call("detach_kernel_driver", iface, Res(in.detach))>>
                   ELSE c1
        has_kd  == active
        det     == IF active THEN Some(iface) ELSE None
        c3      == c2 \o <<Call("set_active_configuration", cfg.number, Res(setcfg))>>
        c4      == c3 \o <<Call("claim_interface", iface, Res(claim))>>
        c5      == c4 \o <<CallW("set_alternate_setting", iface,
                                 <<idesc.setting_number>>, Res(in.setalt))>>
        c6      == c5 \o <<CallW("write_interrupt", w.eout.v, <<ActivateCmd>>,
                                 Res(in.write))>>
    IN  IF ~in.kda THEN ListenAbort("Usb", c1, None, None)
        ELSE IF active /\ ~in.detach THEN ListenAbort("Usb", c2, None, None)
        ELSE IF ~setcfg THEN ListenAbort("Usb", c3, det, None)
        ELSE IF ~claim THEN ListenAbort("Usb", c4, det, None)
        ELSE IF ~in.setalt THEN ListenAbort("Usb", c5, det, Some(iface))
        ELSE IF ~in.write THEN ListenAbort("Usb", c6, det, Some(iface))
        ELSE ListenOk(c6, det, iface, w.ein.v, has_kd)

\* Lines 109-133: from the kernel-driver query to the Listener.
ListenSetup(cfg, w, kd, claims, in, cs) ==
    LET idesc   == w.idesc.v
        iface   == idesc.interface_number
        active  == in.kda /\ iface \in kd                \* Ok(true)
        setcfg  == in.setcfg /\ ~AnyClaim(claims)
        claim   == in.claim /\ claims[iface] = 0
        c1      == cs \o <<Call("kernel_driver_active", iface,
                                IF ~in.kda THEN "Err"
                                ELSE IF iface \in kd THEN "true" ELSE "false")>>
        c2      == IF active
                   THEN c1 \o <<Call("detach_kernel_driver", iface, Res(in.detach))>>
                   ELSE c1
        has_kd  == active
        det     == IF active THEN Some(iface) ELSE None
        c3      == c2 \o <<Call("set_active_configuration", cfg.number, Res(setcfg))>>
        c4      == c3 \o <<Call("claim_interface", iface, Res(claim))>>
        c5      == c4 \o <<CallW("set_alternate_setting", iface,
                                 <<idesc.setting_number>>, Res(in.setalt))>>
        c6      == c5 \o <<CallW("write_interrupt", w.eout.v, <<ActivateCmd>>,
                                 Res(in.write))>>
    IN  IF active /\ ~in.detach THEN ListenAbort("Usb", c2, None, None)
        ELSE IF ~setcfg THEN ListenAbort("Usb", c3, det, None)
        ELSE IF ~claim THEN ListenAbort("Usb", c4, det, None)
        ELSE IF ~in.setalt THEN ListenAbort("Usb", c5, det, Some(iface))
        ELSE IF ~in.write THEN ListenAbort("Usb", c6, det, Some(iface))
        ELSE ListenOk(c6, det, iface, w.ein.v, has_kd)

\* listen reporting a failed descriptor walk as a transport error.
listen_walk_usb(cfg, kd, claims, in) ==
    LET c0 == <<Call("open", 0, Res(in.open))>>
        c1 == c0 \o <<Call("config_descriptor", 0, Res(in.cfg))>>
        w  == Walk(cfg)
    IN  IF ~in.open THEN ListenNoHandle(c0)
        ELSE IF ~in.cfg THEN ListenAbort("Usb", c1, None, None)
        ELSE IF WalkFails(w) THEN ListenAbort("Usb", c1, None, None)
        ELSE ListenSetup(cfg, w, kd, claims, in, c1)

\* Lines 78-133.
listen(cfg, kd, claims, in) ==
    LET c0 == <<Call("open", 0, Res(in.open))>>
        c1 == c0 \o <<Call("config_descriptor", 0, Res(in.cfg))>>
        w  == Walk(cfg)
    IN  IF ~in.open THEN ListenNoHandle(c0)
        ELSE IF ~in.cfg THEN ListenAbort("Usb", c1, None, None)
        ELSE IF WalkFails(w) THEN ListenAbort("UnrecognizedProtocol", c1, None, None)
        ELSE ListenSetup(cfg, w, kd, claims, in, c1)

(***************************************************************************)
(* Listener::read and Drop for Listener                                    *)
(***************************************************************************)
\* Sub-packets and packets the device may deliver.
SubWiredA   == <<16, 1, 0, 128, 128, 128, 128, 0, 0>>
SubAbsent   == <<15, 255, 255, 1, 2, 3, 4, 5, 6>>
SubWireless == <<34, 170, 5, 10, 20, 30, 40, 50, 60>>
SubUnknown  == <<240, 85, 250, 255, 0, 255, 0, 255, 0>>

Packet(pad, s1, s2, s3, s4) == <<pad>> \o s1 \o s2 \o s3 \o s4

Packets == { Packet(0, SubWiredA, SubAbsent, SubWireless, SubUnknown),
             Packet(33, SubWireless, SubWiredA, SubAbsent, SubAbsent) }

\* Byte counts a transfer may report; the buffer holds PacketLen bytes.
TransferLens == {0, PacketLen - 1, PacketLen, PacketLen + 1}

\* One transfer: whether it succeeds, the count it reports, the bytes it brings.
\* A failed transfer may still have brought some bytes.
Transfers == {x \in [ok : BOOLEAN, n : TransferLens, pkt : Packets] :
                  x.ok \/ x.n < PacketLen - 1}

Min(a, b) == IF a < b THEN a ELSE b

\* read_interrupt writes the bytes it received over the start of the buffer.
Fill(buffer, xfer) ==
    [k \in 1..PacketLen |-> IF k <= Min(xfer.n, PacketLen) THEN xfer.pkt[k]
                            ELSE buffer[k]]

\* read decoding whatever a successful transfer brought, whatever its length.
read_any_len(l, xfer) ==
    LET buf == Fill(l.buffer, xfer)
        cs  == <<CallW("read_interrupt", l.endpoint_in, <<xfer.n>>, Res(xfer.ok))>>
    IN  IF xfer.ok
        THEN [ret |-> "Ok", val |-> parse_packet(buf), parsed |-> TRUE,
              buffer |-> buf, calls |-> cs]
        ELSE [ret |-> "Usb", val |-> << >>, parsed |-> FALSE,
              buffer |-> buf, calls |-> cs]

\* read decoding the buffer as it was before the transfer filled it.
read_stale(l, xfer) ==
    LET buf == Fill(l.buffer, xfer)
        cs  == <<CallW("read_interrupt", l.endpoint_in, <<xfer.n>>, Res(xfer.ok))>>
    IN  IF xfer.ok /\ xfer.n = 37
        THEN [ret |-> "Ok", val |-> parse_packet(l.buffer), parsed |-> TRUE,
              buffer |-> buf, calls |-> cs]
        ELSE IF xfer.ok
        THEN [ret |-> "InvalidPacket", val |-> << >>, parsed |-> FALSE,
              buffer |-> buf, calls |-> cs]
        ELSE [ret |-> "Usb", val |-> << >>, parsed |-> FALSE,
              buffer |-> buf, calls |-> cs]

\* read issuing the transfer a second time when the first one failed.
read_retry(l, xfer) ==
    LET buf == Fill(l.buffer, xfer)
        c   == CallW("read_interrupt", l.endpoint_in, <<xfer.n>>, Res(xfer.ok))
    IN  IF xfer.ok /\ xfer.n = 37
        THEN [ret |-> "Ok", val |-> parse_packet(buf), parsed |-> TRUE,
              buffer |-> buf, calls |-> <<c>>]
        ELSE IF xfer.ok
        THEN [ret |-> "InvalidPacket", val |-> << >>, parsed |-> FALSE,
              buffer |-> buf, calls |-> <<c>>]
        ELSE [ret |-> "Usb", val |-> << >>, parsed |-> FALSE,
              buffer |-> buf, calls |-> <<c, c>>]

\* Lines 163-170. `parsed` records whether parse_packet was applied.
read(l, xfer) ==
    LET buf == Fill(l.buffer, xfer)
        cs  == <<CallW("read_interrupt", l.endpoint_in, <<xfer.n>>, Res(xfer.ok))>>
    IN  IF xfer.ok /\ xfer.n = 37
        THEN [ret |-> "Ok", val |-> parse_packet(buf), parsed |-> TRUE,
              buffer |-> buf, calls |-> cs]
        ELSE IF xfer.ok
        THEN [ret |-> "InvalidPacket", val |-> << >>, parsed |-> FALSE,
              buffer |-> buf, calls |-> cs]
        ELSE [ret |-> "Usb", val |-> << >>, parsed |-> FALSE,
              buffer |-> buf, calls |-> cs]

\* read clearing the detach flag when it returns an error.
ListenerAfterRead_clear_flag(l, o) ==
    [l EXCEPT !.buffer = o.buffer,
              !.has_kernel_driver = @ /\ o.ret = "Ok"]

\* Lines 163-170: read takes &mut self and writes self.buffer only.
ListenerAfterRead(l, o) == [l EXCEPT !.buffer = o.buffer]

\* The buffer holds bytes of more than one transfer.
Mixed(buffer) == buffer \notin Packets \cup {[k \in 1..PacketLen |-> 0]}

\* drop that forgets the reattach.
drop_never(l, attachOk) == << >>

\* Lines 173-179: the calls Drop::drop itself issues; the Result is discarded.
drop(l, attachOk) ==
    IF l.has_kernel_driver
    THEN <<Call("attach_kernel_driver", l.interface, Res(attachOk))>>
    ELSE << >>

\* The handle released and closed before Drop::drop has run.
DropCalls_handle_first(l, attachOk) ==
    HandleDrop(Some(l.interface)) \o drop(l, attachOk)

\* Releasing a Listener: Drop::drop runs first (lines 173-179), then the
\* fields are dropped, `handle` among them (lines 140-146).
DropCalls(l, attachOk) == drop(l, attachOk) \o HandleDrop(Some(l.interface))

(***************************************************************************)
(* State                                                                   *)
(***************************************************************************)
Handles == 1..MaxListens

NoHandle == [state |-> "unused", det |-> None, reattaches |-> 0,
             reattachOk |-> TRUE, activations |-> 0]

NoListener == [state |-> "none", buffer |-> << >>, has_kernel_driver |-> FALSE,
               interface |-> 0, endpoint_in |-> 0]

NoRead == [h |-> 0, ret |-> "none", val |-> << >>, parsed |-> FALSE,
           ok |-> FALSE, n |-> 0, pkt |-> << >>, mixed |-> FALSE]

\* listen taking `self` by value: the Adapter is gone when it returns.
AdapterConsumed(a) == [a EXCEPT !.listens = @ + 1, !.usable = FALSE]

\* listen takes &mut self: the Adapter is still there when it returns.
AdapterAfterListen(a) == [a EXCEPT !.listens = @ + 1]

InitUsb ==
    /\ config \in Configs
    /\ kernelDriver \in {{}, Interfaces}
    /\ claimedBy = [i \in Interfaces |-> 0]
    /\ adapter = [usable |-> TRUE, listens |-> 0]
    /\ handles = [h \in Handles |-> NoHandle]
    /\ listeners = [h \in Handles |-> NoListener]
    /\ calls = << >>
    /\ lret = "none"
    /\ rret = NoRead

IdleUsb ==
    /\ config = CfgAdapter
    /\ kernelDriver = {}
    /\ claimedBy = [i \in Interfaces |-> 0]
    /\ adapter = [usable |-> FALSE, listens |-> 0]
    /\ handles = [h \in Handles |-> NoHandle]
    /\ listeners = [h \in Handles |-> NoListener]
    /\ calls = << >>
    /\ lret = "none"
    /\ rret = NoRead

IdleScan   == bus = << >> /\ enumOk = TRUE /\ found = [tag |-> "none"]
IdleParse  == data = << >> /\ chosen = None /\ result = [tag |-> "none"]
IdlePacket == bufA = << >> /\ bufB = << >> /\ slotsA = << >> /\ slotsB = << >>
IdleLog ==
    /\ controllers = << >> /\ mutex = "none" /\ writerPc = "none"
    /\ writerVal = << >> /\ writerIdx = 0 /\ listener = None
    /\ renderPc = "none" /\ drawn = << >> /\ stored = << >>

(***************************************************************************)
(* Actions of a session                                                    *)
(***************************************************************************)
Listen ==
    /\ adapter.usable
    /\ adapter.listens < MaxListens
    /\ \E in \in ListenInputs :
         LET h == adapter.listens + 1
             o == listen(config, kernelDriver, claimedBy, in)
         IN  /\ adapter' = AdapterAfterListen(adapter)
             /\ handles' = [handles EXCEPT ![h] =
                    [state       |-> IF ~o.opened THEN "failed"
                                     ELSE IF o.lst.some THEN "open" ELSE "closed",
                     det         |-> o.det,
                     reattaches  |-> 0,
                     reattachOk  |-> TRUE,
                     activations |-> o.act]]
             /\ listeners' = [listeners EXCEPT ![h] =
                    IF o.lst.some
                    THEN [state             |-> "live",
                          buffer            |-> o.lst.v.buffer,
                          has_kernel_driver |-> o.lst.v.has_kernel_driver,
                          interface         |-> o.lst.v.interface,
                          endpoint_in       |-> o.lst.v.endpoint_in]
                    ELSE NoListener]
             /\ kernelDriver' = IF o.det.some THEN kernelDriver \ {o.det.v}
                                ELSE kernelDriver
             /\ claimedBy' = IF o.lst.some THEN [claimedBy EXCEPT ![o.claim.v] = h]
                             ELSE claimedBy
             /\ calls' = o.calls
             /\ lret' = o.ret
    /\ UNCHANGED <<config, rret, scanVars, parseVars, packetVars, logVars>>

Read ==
    \E h \in Handles : \E xfer \in Transfers :
        /\ listeners[h].state = "live"
        /\ LET o == read(listeners[h], xfer)
           IN  /\ listeners' = [listeners EXCEPT ![h] = ListenerAfterRead(@, o)]
               /\ rret' = [h |-> h, ret |-> o.ret, val |-> o.val, parsed |-> o.parsed,
                            ok |-> xfer.ok, n |-> xfer.n, pkt |-> xfer.pkt,
                            mixed |-> Mixed(listeners[h].buffer)]
               /\ calls' = o.calls
        /\ UNCHANGED <<config, kernelDriver, claimedBy, adapter, handles, lret,
                       scanVars, parseVars, packetVars, logVars>>

\* The Listener is released: Drop::drop runs, then its fields are dropped.
Drop ==
    \E h \in Handles : \E attachOk \in BOOLEAN :
        /\ listeners[h].state = "live"
        /\ LET l  == listeners[h]
               cs == drop(l, attachOk)
           IN  /\ calls' = DropCalls(l, attachOk)
               /\ handles' = [handles EXCEPT
                      ![h].state = "closed",
                      ![h].reattaches = @ + Len(cs),
                      ![h].reattachOk = \A k \in DOMAIN cs : cs[k].ret = "Ok"]
               /\ kernelDriver' = kernelDriver \cup
                                      {cs[k].arg : k \in {j \in DOMAIN cs : cs[j].ret = "Ok"}}
               /\ claimedBy' = [i \in Interfaces |->
                                   IF claimedBy[i] = h THEN 0 ELSE claimedBy[i]]
               /\ listeners' = [listeners EXCEPT
                      ![h].state = "dropped",
                      ![h].buffer = << >>]
        /\ UNCHANGED <<config, adapter, lret, rret, scanVars, parseVars, packetVars, logVars>>

Init == InitUsb /\ IdleScan /\ IdleParse /\ IdlePacket /\ IdleLog

Next == Listen \/ Read \/ Drop

Spec == Init /\ [][Next]_vars

(***************************************************************************)
(* Properties of a session (specification Spec)                            *)
(***************************************************************************)
Ops(cs) == [k \in DOMAIN cs |-> cs[k].op]

IsPrefix(a, b) == Len(a) <= Len(b) /\ \A k \in DOMAIN a : a[k] = b[k]

\* `calls` is the log of a listen / of a release.
IsListenLog == calls # << >> /\ calls[1].op = "open"
IsDropLog   == calls # << >> /\ calls[1].op # "open" /\ calls[Len(calls)].op = "close"

\* The calls listen itself issued, without those of the handle going away.
ListenPart(cs) == SelectSeq(cs, LAMBDA c : c.op \notin {"release_interface", "close"})

AttachCalls(cs) == SelectSeq(cs, LAMBDA c : c.op = "attach_kernel_driver")

\* C1: a released Listener whose detach flag is set has had exactly one
\* reattach issued, on its claimed interface, whatever preceded the release and
\* whether or not the reattach succeeded; a released Listener whose flag is not
\* set has had none; nothing is reattached before the release.
C1_ReattachOncePerRelease ==
    /\ \A h \in Handles :
         /\ listeners[h].state = "dropped" =>
               handles[h].reattaches = (IF listeners[h].has_kernel_driver THEN 1 ELSE 0)
         /\ listeners[h].state \in {"none", "live"} => handles[h].reattaches = 0
    /\ IsDropLog =>
         /\ Len(AttachCalls(calls)) <= 1
         /\ \A k \in DOMAIN calls :
              calls[k].op = "attach_kernel_driver" =>
               /\ k = 1
               /\ \E h \in Handles :
                    /\ listeners[h].state = "dropped"
                    /\ listeners[h].has_kernel_driver
                    /\ listeners[h].interface = calls[k].arg
                    /\ handles[h].state = "closed"
    /\ \A h \in Handles :
         ~handles[h].reattachOk =>
            listeners[h].state = "dropped" /\ handles[h].state = "closed"

\* A Listener with the flag set was released right after a read error, and the
\* reattach failed: the release completed all the same.
C1_Witness ==
    \E h \in Handles :
       /\ listeners[h].state = "dropped"
       /\ listeners[h].has_kernel_driver
       /\ handles[h].reattaches = 1
       /\ ~handles[h].reattachOk
       /\ rret.h = h /\ rret.ret = "Usb"
       /\ IsDropLog

\* C2: every handle that detached the kernel driver and has been closed has
\* had a reattach attempted.
C2_DetachAlwaysReattached ==
    \A h \in Handles :
       (handles[h].state = "closed" /\ handles[h].det.some)
          => handles[h].reattaches >= 1

\* C3: read returns the decoded 4-port result exactly when the transfer
\* succeeded and reported 37 bytes; a successful transfer of another length
\* gives InvalidPacket and parse_packet is not applied; a failed transfer gives
\* the transport error.
C3_ReadOutcome ==
    rret.h # 0 =>
       /\ rret.ret = "Ok" <=> (rret.ok /\ rret.n = 37)
       /\ rret.parsed <=> rret.ret = "Ok"
       /\ (rret.ok /\ rret.n # 37) => (rret.ret = "InvalidPacket" /\ rret.val = << >>)
       /\ ~rret.ok => (rret.ret = "Usb" /\ rret.val = << >>)
       /\ rret.ret = "Ok" => Len(rret.val) = 4
       /\ (rret.ret = "Ok" /\ listeners[rret.h].state = "live"
              /\ calls # << >> /\ calls[1].op = "read_interrupt")
            => rret.val = parse_packet(listeners[rret.h].buffer)

\* A transfer one byte short and a transfer one byte long were both refused.
C3_Witness ==
    /\ rret.h # 0 /\ rret.ok /\ rret.n = PacketLen - 1
    /\ rret.ret = "InvalidPacket" /\ ~rret.parsed

ListenOrder(withDetach) ==
    <<"open", "config_descriptor", "kernel_driver_active">>
       \o (IF withDetach THEN <<"detach_kernel_driver">> ELSE << >>)
       \o <<"set_active_configuration", "claim_interface",
            "set_alternate_setting", "write_interrupt">>

\* C4: listen issues open, the descriptor read, the driver query, the detach
\* (only when the query said a driver is active), set configuration, claim,
\* set alternate setting and one write of the byte 0x13 on the OUT endpoint, in
\* that order; it stops at the first call that fails (the query excepted),
\* returns an error then (the transport error for a failed detach, set
\* configuration, claim, set alternate setting or write) and builds no
\* Listener; every Listener's handle had the activation byte written once,
\* successfully, before any read is issued on it.
C4_EstablishmentOrder ==
    /\ IsListenLog =>
         LET lp  == ListenPart(calls)
             n   == Len(lp)
             h   == adapter.listens
         IN  /\ IsPrefix(Ops(lp), ListenOrder(TRUE)) \/ IsPrefix(Ops(lp), ListenOrder(FALSE))
             /\ \A k \in 1..n :
                  /\ lp[k].op = "detach_kernel_driver" => lp[k-1].ret = "true"
                  /\ (lp[k].op = "kernel_driver_active" /\ lp[k].ret = "true" /\ k < n)
                        => lp[k+1].op = "detach_kernel_driver"
                  /\ (k < n /\ lp[k].op # "kernel_driver_active") => lp[k].ret = "Ok"
                  /\ lp[k].op = "write_interrupt" =>
                        /\ lp[k].data = <<ActivateCmd>>
                        /\ Direction(lp[k].arg) = "Out"
                        /\ lp[k].arg = Walk(config).eout.v
             /\ lret = "Ok" <=> (lp[n].op = "write_interrupt" /\ lp[n].ret = "Ok")
             /\ lret = "Ok" <=> listeners[h].state = "live"
             /\ lret # "Ok" => listeners[h] = NoListener /\ handles[h].state # "open"
             /\ (lp[n].ret = "Err" /\ lp[n].op \in
                    {"detach_kernel_driver", "set_active_configuration",
                     "claim_interface", "set_alternate_setting", "write_interrupt"})
                  => lret = "Usb"
             /\ lret = "Ok" => calls = lp
    /\ \A h \in Handles :
         /\ listeners[h].state # "none" => handles[h].activations = 1
         /\ listeners[h].state = "none" => handles[h].activations = 0
    /\ \A k \in DOMAIN calls :
         calls[k].op = "read_interrupt" => handles[rret.h].activations = 1

\* A read was issued on a Listener built by a listen that detached the driver.
C4_Witness ==
    /\ calls # << >> /\ calls[1].op = "read_interrupt"
    /\ handles[rret.h].activations = 1
    /\ handles[rret.h].det.some
    /\ lret = "Ok"

NoEndpoint(cfg, dir) ==
    \A i \in DOMAIN cfg.interfaces :
       \A d \in DOMAIN cfg.interfaces[i] :
          \A e \in DOMAIN cfg.interfaces[i][d].endpoints :
             Direction(cfg.interfaces[i][d].endpoints[e]) # dir

\* C8: when open and the descriptor read succeed and the configuration has no
\* IN endpoint (or no OUT endpoint), listen returns UnrecognizedProtocol.
C8_NoDirectionUnrecognized ==
    (/\ IsListenLog
     /\ Len(calls) >= 2
     /\ calls[1].ret = "Ok" /\ calls[2].ret = "Ok"
     /\ NoEndpoint(config, "In") \/ NoEndpoint(config, "Out"))
       => (lret = "UnrecognizedProtocol"
           /\ Ops(calls) = <<"open", "config_descriptor", "close">>)

\* listen ran on a two-interface configuration without any IN endpoint.
C8_Witness ==
    /\ IsListenLog
    /\ config = CfgNoInTwo
    /\ calls[1].ret = "Ok" /\ calls[2].ret = "Ok"
    /\ lret = "UnrecognizedProtocol"

\* C10 as claimed: listen is never invoked twice on the same adapter handle.
C10_HandleConsumed == adapter.listens <= 1

\* C10 as amended: the adapter handle stays usable after listen, whether it
\* returned a Listener or an error, and listen can be invoked on it again.
C10_HandleSurvives ==
    /\ adapter.usable
    /\ adapter.listens < MaxListens => ENABLED Listen

\* A second listen on the same adapter succeeded, after a first that failed.
C10_Witness ==
    /\ adapter.listens = 2
    /\ handles[1].state \in {"closed", "failed"}
    /\ listeners[1].state = "none"
    /\ listeners[2].state = "live"
    /\ lret = "Ok"

(***************************************************************************)
(* Scanner::find_adapter (specification SpecFind)                          *)
(***************************************************************************)
\* A device on the bus: its ids and whether its descriptor can be read.
Devices == [vid : {VENDOR_ID, 1133}, pid : {PRODUCT_ID, 774},
            descOk : BOOLEAN]

Buses == UNION {[1..n -> Devices] : n \in 0..MaxDevices}

\* The loop of find_adapter matching on either id instead of both.
RECURSIVE FindFrom_either(_, _)
FindFrom_either(devs, k) ==
    IF k > Len(devs) THEN [tag |-> "Ok", val |-> None, examined |-> k - 1]
    ELSE IF ~devs[k].descOk THEN [tag |-> "Err", val |-> None, examined |-> k]
    ELSE IF devs[k].vid = VENDOR_ID \/ devs[k].pid = PRODUCT_ID
    THEN [tag |-> "Ok", val |-> Some(k), examined |-> k]
    ELSE FindFrom_either(devs, k + 1)

\* The loop of find_adapter skipping a device whose descriptor cannot be read.
RECURSIVE FindFrom_skip(_, _)
FindFrom_skip(devs, k) ==
    IF k > Len(devs) THEN [tag |-> "Ok", val |-> None, examined |-> k - 1]
    ELSE IF ~devs[k].descOk THEN FindFrom_skip(devs, k + 1)
    ELSE IF devs[k].vid = VENDOR_ID /\ devs[k].pid = PRODUCT_ID
    THEN [tag |-> "Ok", val |-> Some(k), examined |-> k]
    ELSE FindFrom_skip(devs, k + 1)

\* Lines 56-64: the loop over the devices, from device k on.
RECURSIVE FindFrom(_, _)
FindFrom(devs, k) ==
    IF k > Len(devs) THEN [tag |-> "Ok", val |-> None, examined |-> k - 1]
    ELSE IF ~devs[k].descOk THEN [tag |-> "Err", val |-> None, examined |-> k]
    ELSE IF devs[k].vid = VENDOR_ID /\ devs[k].pid = PRODUCT_ID
    THEN [tag |-> "Ok", val |-> Some(k), examined |-> k]
    ELSE FindFrom(devs, k + 1)

\* Lines 55-65.
find_adapter(ok, devs) ==
    IF ~ok THEN [tag |-> "Err", val |-> None, examined |-> 0]
    ELSE FindFrom(devs, 1)

InitScan ==
    /\ bus \in Buses
    /\ enumOk \in BOOLEAN
    /\ found = [tag |-> "none"]

FindAdapter ==
    /\ found.tag = "none"
    /\ found' = find_adapter(enumOk, bus)
    /\ UNCHANGED <<bus, enumOk, usbVars, parseVars, packetVars, logVars>>

InitFind == InitScan /\ IdleUsb /\ IdleParse /\ IdlePacket /\ IdleLog

NextFind == FindAdapter

SpecFind == InitFind /\ [][NextFind]_vars

\* The devices carrying both the vendor id and the product id.
Matching == {k \in DOMAIN bus : bus[k].vid = 1406 /\ bus[k].pid = 823}

\* The device at which the enumeration stops when nothing fails.
LastRead == IF Matching = {} THEN Len(bus)
            ELSE CHOOSE k \in Matching : \A j \in Matching : k <= j

\* C9: when the enumeration succeeds and no descriptor read fails,
\* find_adapter returns the first device in enumeration order that carries both
\* ids, and Ok(None) when no device carries both.
C9_FirstMatch ==
    (/\ found.tag # "none"
     /\ enumOk
     /\ \A k \in 1..LastRead : bus[k].descOk)
       => /\ found.tag = "Ok"
          /\ found.examined = LastRead
          /\ Matching = {} => found.val = None
          /\ Matching # {} => found.val = Some(LastRead)

\* The adapter is third on the bus, after a device with only the vendor id and
\* one with only the product id.
C9_Witness ==
    /\ found.tag = "Ok" /\ found.val = Some(3)
    /\ Len(bus) = 3
    /\ bus[1].vid = VENDOR_ID /\ bus[1].pid # PRODUCT_ID
    /\ bus[2].vid # VENDOR_ID /\ bus[2].pid = PRODUCT_ID

(***************************************************************************)
(* Controller::parse (specification SpecParse)                             *)
(***************************************************************************)
Byte0s == {16 * n : n \in 0..15} \cup {7, 15, 17, 31, 47, 255}
Byte1s == {0, 1, 2, 4, 8, 16, 32, 64, 128, 170, 255}
Byte2s == {0, 1, 2, 4, 8, 15, 16, 240, 255}
AxisSamples == { <<128, 128, 128, 128, 0, 0>>,
                 <<1, 2, 3, 4, 5, 6>>,
                 <<255, 0, 30, 225, 127, 254>> }

SubPackets == {<<b0, b1, b2>> \o ax :
                  b0 \in Byte0s, b1 \in Byte1s, b2 \in Byte2s, ax \in AxisSamples}

Kinds == {"Wired", "Wireless", "Unknown"}

\* The controller state with kind k, buttons bt (12 booleans) and axes ax.
Ctl(k, bt, ax) ==
    [kind |-> k,
     a |-> bt[1], b |-> bt[2], x |-> bt[3], y |-> bt[4],
     left |-> bt[5], right |-> bt[6], down |-> bt[7], up |-> bt[8],
     start |-> bt[9], z |-> bt[10], r |-> bt[11], l |-> bt[12],
     stick_x |-> ax[1], stick_y |-> ax[2], c_stick_x |-> ax[3],
     c_stick_y |-> ax[4], l_analog |-> ax[5], r_analog |-> ax[6]]

Controllers == {Ctl(k, bt, ax) : k \in Kinds, bt \in [1..12 -> BOOLEAN],
                                 ax \in {<<1, 2, 3, 4, 5, 6>>, <<255, 0, 30, 225, 127, 254>>}}

W(flag, weight) == IF flag THEN weight ELSE 0

\* The sub-packet a device sends for controller state c (section 4.3 layout).
Encode(c) ==
    << (CASE c.kind = "Wired" -> 1 [] c.kind = "Wireless" -> 2 [] OTHER -> 3) * 16,
       W(c.a, 1) + W(c.b, 2) + W(c.x, 4) + W(c.y, 8)
          + W(c.left, 16) + W(c.right, 32) + W(c.down, 64) + W(c.up, 128),
       W(c.start, 1) + W(c.z, 2) + W(c.r, 4) + W(c.l, 8),
       c.stick_x, c.stick_y, c.c_stick_x, c.c_stick_y, c.l_analog, c.r_analog >>

InitParse ==
    /\ result = [tag |-> "none"]
    /\ \/ data \in SubPackets /\ chosen = None
       \/ data = << >> /\ chosen \in {Some(c) : c \in Controllers}

\* parse applied to a received sub-packet.
Parse ==
    /\ result.tag = "none"
    /\ data # << >>
    /\ result' = [tag |-> "parsed", val |-> parse(data)]
    /\ UNCHANGED <<data, chosen, usbVars, scanVars, packetVars, logVars>>

\* parse applied to the encoding of a chosen controller state.
EncodeParse ==
    /\ result.tag = "none"
    /\ chosen.some
    /\ data' = Encode(chosen.v)
    /\ result' = [tag |-> "parsed", val |-> parse(data')]
    /\ UNCHANGED <<chosen, usbVars, scanVars, packetVars, logVars>>

InitParseSpec == InitParse /\ IdleUsb /\ IdleScan /\ IdlePacket /\ IdleLog

NextParse == Parse \/ EncodeParse

SpecParse == InitParseSpec /\ [][NextParse]_vars

\* C5: a sub-packet whose byte 0 has upper nibble 0 (byte 0 below 16) decodes
\* to None, whatever the lower nibble and the other bytes.
C5_AbsentPort ==
    (result.tag = "parsed" /\ data[1] < 16) => result.val = None

\* Byte 0 is 0x0F and the button bytes are all ones: still absent.
C5_Witness ==
    /\ result.tag = "parsed"
    /\ data[1] = 15 /\ data[2] = 255 /\ data[3] = 255
    /\ result.val = None

\* Bit n of byte b, by the remainder.
HasBit(b, n) == b % (2 ^ (n + 1)) >= 2 ^ n

\* C6: a sub-packet with a non-zero upper nibble decodes to a snapshot of kind
\* Wired (nibble 1), Wireless (2) or Unknown (3..15) whose buttons are the bits
\* of bytes 1 and 2 in the stated order (bits 4..7 of byte 2 ignored) and whose
\* axes are bytes 3..8 verbatim; decoding the encoding of a chosen state gives
\* that state back.
C6_FieldExtraction ==
    result.tag = "parsed" =>
       /\ data[1] >= 16 =>
            /\ result.val.some
            /\ LET c == result.val.v
               IN  /\ (data[1] \in 16..31) => c.kind = "Wired"
                   /\ (data[1] \in 32..47) => c.kind = "Wireless"
                   /\ (data[1] \in 48..255) => c.kind = "Unknown"
                   /\ c.a = HasBit(data[2], 0)     /\ c.b = HasBit(data[2], 1)
                   /\ c.x = HasBit(data[2], 2)     /\ c.y = HasBit(data[2], 3)
                   /\ c.left = HasBit(data[2], 4)  /\ c.right = HasBit(data[2], 5)
                   /\ c.down = HasBit(data[2], 6)  /\ c.up = HasBit(data[2], 7)
                   /\ c.start = HasBit(data[3], 0) /\ c.z = HasBit(data[3], 1)
                   /\ c.r = HasBit(data[3], 2)     /\ c.l = HasBit(data[3], 3)
                   /\ c.stick_x = data[4]   /\ c.stick_y = data[5]
                   /\ c.c_stick_x = data[6] /\ c.c_stick_y = data[7]
                   /\ c.l_analog = data[8]  /\ c.r_analog = data[9]
                   /\ result.val = parse([data EXCEPT ![3] = data[3] % 16])
       /\ chosen.some => result.val = chosen

\* A wireless controller with Y, D-pad down, Z and digital L pressed came back
\* from its encoding.
C6_Witness ==
    /\ result.tag = "parsed"
    /\ chosen.some
    /\ result.val = chosen
    /\ chosen.v.kind = "Wireless"
    /\ chosen.v.y /\ chosen.v.down /\ chosen.v.z /\ chosen.v.l
    /\ ~chosen.v.a /\ ~chosen.v.up /\ ~chosen.v.start /\ ~chosen.v.r
    /\ data[2] = 72 /\ data[3] = 10

(***************************************************************************)
(* Controller::parse_packet (specification SpecPacket)                     *)
(***************************************************************************)
PortSubs == {SubWiredA, SubAbsent, SubWireless}

PacketBufs == {Packet(pad, s1, s2, s3, s4) :
                  pad \in {0, 33}, s1 \in PortSubs, s2 \in PortSubs,
                  s3 \in PortSubs, s4 \in PortSubs}

InitPacket ==
    /\ bufA \in PacketBufs
    /\ bufB \in PacketBufs
    /\ slotsA = << >>
    /\ slotsB = << >>

ParsePackets ==
    /\ slotsA = << >>
    /\ slotsA' = parse_packet(bufA)
    /\ slotsB' = parse_packet(bufB)
    /\ UNCHANGED <<bufA, bufB, usbVars, scanVars, parseVars, logVars>>

InitPacketSpec == InitPacket /\ IdleUsb /\ IdleScan /\ IdleParse /\ IdleLog

NextPacket == ParsePackets

SpecPacket == InitPacketSpec /\ [][NextPacket]_vars

\* Bytes 1+9i .. 9+9i of a buffer (byte 0 being the first).
Region(buf, i) == [k \in 1..9 |-> buf[1 + 9 * i + k]]

\* C7: a 37-byte buffer decodes to 4 slots, slot i being the decoding of bytes
\* 1+9i .. 9+9i alone: two buffers that agree on that region have the same
\* slot i, whatever their padding byte and their other regions.
C7_PortsIndependent ==
    slotsA # << >> =>
       /\ Len(slotsA) = 4 /\ Len(slotsB) = 4
       /\ \A i \in 0..3 :
            /\ slotsA[i + 1] = parse(Region(bufA, i))
            /\ Region(bufA, i) = Region(bufB, i) => slotsA[i + 1] = slotsB[i + 1]

\* Two buffers that agree on port 1's region only (absent there) and differ in
\* the padding byte and in every other region.
C7_Witness ==
    /\ slotsA # << >>
    /\ Region(bufA, 1) = SubAbsent /\ Region(bufB, 1) = SubAbsent
    /\ bufA[1] # bufB[1]
    /\ \A i \in {0, 2, 3} : Region(bufA, i) # Region(bufB, i)
    /\ slotsA[2] = None /\ slotsB[2] = None
    /\ slotsA[1] # None /\ slotsA[3] # None /\ slotsA[4] # None

(***************************************************************************)
(* Further properties of a session (specification Spec)                    *)
(***************************************************************************)
Live == {h \in Handles : listeners[h].state = "live"}

\* C11: at most one Listener of the adapter is alive at any time: a listen made
\* while an earlier Listener is alive is refused by the host stack, returns the
\* transport error and builds no Listener, so reads are only ever issued on the
\* one live Listener, which holds the interface claim.
C11_OneLiveSession ==
    /\ Cardinality(Live) <= 1
    /\ \A h \in Live : \E i \in Interfaces :
          claimedBy[i] = h /\ listeners[h].interface = i
    /\ (IsListenLog /\ \E g \in Live : g < adapter.listens) =>
          /\ lret = "Usb"
          /\ listeners[adapter.listens] = NoListener
          /\ handles[adapter.listens].state \in {"closed", "failed"}
    /\ \A k \in DOMAIN calls :
          calls[k].op = "read_interrupt" =>
             /\ Live \subseteq {rret.h}
             /\ handles[rret.h].state = "open"

\* A second listen was made while the first Listener was alive; every host
\* call up to set_active_configuration succeeded and that one was refused.
C11_Witness ==
    /\ IsListenLog
    /\ adapter.listens = 2
    /\ listeners[1].state = "live"
    /\ listeners[2].state = "none"
    /\ lret = "Usb"
    /\ Ops(calls) = <<"open", "config_descriptor", "kernel_driver_active",
                      "set_active_configuration", "close">>

\* An interface offers direction dir in one of its alternate settings.
Offers(ifc, dir) ==
    \E d \in DOMAIN ifc : \E e \in DOMAIN ifc[d].endpoints :
        Direction(ifc[d].endpoints[e]) = dir

OffersBoth(ifc) == Offers(ifc, "In") /\ Offers(ifc, "Out")

\* listen got as far as the descriptor walk.
WalkedLog == IsListenLog /\ Len(calls) >= 2 /\ calls[1].ret = "Ok" /\ calls[2].ret = "Ok"

\* C12 as claimed: whenever some interface offers both directions the walk
\* succeeds.
C12_SucceedsIfAnyPair ==
    (WalkedLog /\ \E i \in DOMAIN config.interfaces : OffersBoth(config.interfaces[i]))
       => lret # "UnrecognizedProtocol"

\* The last interface of the list has nothing to select.
LastLacks(cfg) ==
    \/ cfg.interfaces = << >>
    \/ LET last == cfg.interfaces[Len(cfg.interfaces)]
       IN  last = << >> \/ ~OffersBoth(last)

\* C12 as amended: the walk fails with UnrecognizedProtocol exactly when the
\* last interface of the list has no descriptor or does not offer both an IN
\* and an OUT endpoint, whatever the earlier interfaces offer; otherwise it
\* succeeds and the last interface is the one selected.
C12_LastInterfaceDecides ==
    WalkedLog =>
       /\ lret = "UnrecognizedProtocol" <=> LastLacks(config)
       /\ ~LastLacks(config) =>
            LET last == config.interfaces[Len(config.interfaces)]
            IN  /\ Len(calls) >= 3
                /\ calls[3].op = "kernel_driver_active"
                /\ calls[3].arg = last[Len(last)].interface_number

\* The first interface offers the pair, the last one offers nothing: refused.
C12_Witness ==
    /\ WalkedLog
    /\ config = CfgPairThenNone
    /\ lret = "UnrecognizedProtocol"

Range(seq) == {seq[k] : k \in DOMAIN seq}

\* Every descriptor (alternate setting) of the configuration.
AllDescs(cfg) ==
    UNION {Range(cfg.interfaces[j]) : j \in DOMAIN cfg.interfaces}

\* The calls of the log that are `op` calls.
CallsOf(cs, op) == SelectSeq(cs, LAMBDA c : c.op = op)

\* C13: after a successful listen, the IN endpoint the Listener reads and the
\* OUT endpoint the activation byte was written to are both endpoints of the
\* alternate setting that was activated on the claimed interface.
C13_EndpointsOfSelected ==
    (IsListenLog /\ lret = "Ok") =>
       LET h     == adapter.listens
           alt   == CallsOf(calls, "set_alternate_setting")[1]
           claim == CallsOf(calls, "claim_interface")[1]
           wr    == CallsOf(calls, "write_interrupt")[1]
       IN  /\ claim.arg = alt.arg
           /\ listeners[h].interface = alt.arg
           /\ \E d \in AllDescs(config) :
                 /\ d.interface_number = alt.arg
                 /\ d.setting_number = alt.data[1]
                 /\ listeners[h].endpoint_in \in Range(d.endpoints)
                 /\ wr.arg \in Range(d.endpoints)

(***************************************************************************)
(* Further properties of find_adapter (specification SpecFind)             *)
(***************************************************************************)
IsAdapter(dev) == dev.vid = 1406 /\ dev.pid = 823

\* C14: when the descriptor read of a device fails (every device before it
\* was readable and none of them was the adapter), find_adapter returns the
\* transport error with that device the last one examined and no adapter
\* returned, whatever follows it in the list.
C14_FirstFailureWins ==
    (found.tag # "none" /\ enumOk) =>
       \A k \in DOMAIN bus :
          (/\ ~bus[k].descOk
           /\ \A j \in 1..(k - 1) : bus[j].descOk /\ ~IsAdapter(bus[j]))
             => /\ found.tag = "Err"
                /\ found.val = None
                /\ found.examined = k

\* The first device cannot be read and the second is the adapter: error.
C14_Witness ==
    /\ found.tag = "Err" /\ found.examined = 1
    /\ Len(bus) >= 2
    /\ ~bus[1].descOk
    /\ bus[2].descOk /\ IsAdapter(bus[2])

(***************************************************************************)
(* Further properties of read and release (specification Spec)             *)
(***************************************************************************)
\* C15: the interface number, the IN endpoint and the detach flag of a
\* Listener are, after any sequence of reads and at its release, the ones
\* establishment recorded: the selected descriptor's interface, the IN endpoint
\* of the walk, and whether this handle detached the driver.
C15_SessionFieldsFixed ==
    \A h \in Handles :
       listeners[h].state \in {"live", "dropped"} =>
          /\ listeners[h].interface = Walk(config).idesc.v.interface_number
          /\ listeners[h].endpoint_in = Walk(config).ein.v
          /\ listeners[h].has_kernel_driver = handles[h].det.some
          /\ handles[h].det.some => handles[h].det.v = listeners[h].interface
          /\ (listeners[h].state = "dropped" /\ handles[h].det.some)
                => handles[h].reattaches = 1

\* A Listener that detached the driver is alive after a read that returned
\* InvalidPacket and left foreign bytes in its buffer.
C15_Witness ==
    /\ rret.h # 0
    /\ rret.ret = "InvalidPacket" /\ rret.n = PacketLen - 1
    /\ listeners[rret.h].state = "live"
    /\ listeners[rret.h].has_kernel_driver
    /\ calls # << >> /\ calls[1].op = "read_interrupt"

\* C16: what a successful read returns is the decoding of the 37 bytes its own
\* transfer delivered, whatever the buffer held before.
C16_OwnTransferOnly ==
    rret.ret = "Ok" =>
       /\ rret.n = PacketLen
       /\ rret.val = << parse(Region(rret.pkt, 0)), parse(Region(rret.pkt, 1)),
                        parse(Region(rret.pkt, 2)), parse(Region(rret.pkt, 3)) >>

\* A successful read on a buffer that held the first 36 bytes of one packet
\* over older bytes.
C16_Witness ==
    /\ rret.ret = "Ok"
    /\ rret.mixed
    /\ rret.val[4] = parse(SubUnknown)

\* C17: a read issues one interrupt transfer, on the Listener's IN endpoint,
\* and nothing else, whether it returns the decoded array, InvalidPacket or the
\* transport error; the handle stays open, claimed and not reattached.
C17_OneTransferPerRead ==
    (calls # << >> /\ \E k \in DOMAIN calls : calls[k].op = "read_interrupt") =>
       /\ Len(calls) = 1
       /\ calls[1].arg = listeners[rret.h].endpoint_in
       /\ Direction(calls[1].arg) = "In"
       /\ calls[1].ret = (IF rret.ok THEN "Ok" ELSE "Err")
       /\ listeners[rret.h].state = "live"
       /\ handles[rret.h].state = "open"
       /\ handles[rret.h].reattaches = 0
       /\ handles[rret.h].activations = 1
       /\ claimedBy[listeners[rret.h].interface] = rret.h

\* A read whose transfer failed: one call in the log, the error returned.
C17_Witness ==
    /\ calls # << >> /\ calls[1].op = "read_interrupt"
    /\ Len(calls) = 1
    /\ calls[1].ret = "Err"
    /\ rret.ret = "Usb"

\* C18: the Listener's flag is set exactly when the driver query answered
\* true and the detach that followed succeeded.  A query that fails is not
\* returned: no detach is issued, establishment goes on to set the
\* configuration, the flag is false, and the release of that Listener issues
\* no reattach.
QueryAt(k)  == calls[k].op = "kernel_driver_active"
DetachAt(k) == k \in DOMAIN calls /\ calls[k].op = "detach_kernel_driver"

C18_FlagIffDetached ==
    /\ IsListenLog =>
          /\ \A k \in DOMAIN calls :
                (QueryAt(k) /\ calls[k].ret # "true") =>
                   /\ CallsOf(calls, "detach_kernel_driver") = << >>
                   /\ k < Len(calls)
                   /\ calls[k + 1].op = "set_active_configuration"
                   /\ handles[adapter.listens].det = None
          /\ lret = "Ok" =>
                (listeners[adapter.listens].has_kernel_driver
                    <=> \E k \in DOMAIN calls :
                           /\ QueryAt(k) /\ calls[k].ret = "true"
                           /\ DetachAt(k + 1) /\ calls[k + 1].ret = "Ok")
    /\ \A h \in Handles :
          (listeners[h].state = "dropped" /\ ~listeners[h].has_kernel_driver)
             => handles[h].reattaches = 0

\* The query failed while the driver was attached; listen still succeeded,
\* with the flag false and the driver left attached.
C18_Witness ==
    /\ IsListenLog /\ lret = "Ok"
    /\ \E k \in DOMAIN calls : QueryAt(k) /\ calls[k].ret = "Err"
    /\ ~listeners[adapter.listens].has_kernel_driver
    /\ listeners[adapter.listens].interface \in kernelDriver

\* C19: in the release of a Listener whose flag is set, the reattach is called
\* first, on the interface still claimed on the open handle; release_interface
\* and close follow it.
IsReleaseLog ==
    /\ calls # << >>
    /\ calls[1].op # "open"
    /\ \E k \in DOMAIN calls : calls[k].op = "close"

C19_ReattachBeforeRelease ==
    IsReleaseLog =>
       \A a \in DOMAIN calls :
          calls[a].op = "attach_kernel_driver" =>
             /\ \A k \in DOMAIN calls :
                   calls[k].op \in {"release_interface", "close"} => a < k
             /\ \E k \in DOMAIN calls :
                   /\ calls[k].op = "release_interface"
                   /\ calls[k].arg = calls[a].arg
             /\ Ops(calls) = <<"attach_kernel_driver", "release_interface", "close">>

\* A release whose reattach was refused, with the release and the close after it.
C19_Witness ==
    /\ IsReleaseLog
    /\ calls[1].op = "attach_kernel_driver" /\ calls[1].ret = "Err"
    /\ Len(calls) = 3

(***************************************************************************)
(* examples/log.rs: the reader thread and the rendering loop of main       *)
(***************************************************************************)
\* Line 11: Default::default() of the array of Option<Controller>.
AllAbsent == <<None, None, None, None>>

\* Mutex::lock granting the guard although another thread holds it.
CanLock_always(m) == TRUE

\* Mutex::lock (lines 25 and 35) returns once no thread holds the guard.
CanLock(m) == m = "none"

InitLog ==
    /\ controllers = AllAbsent
    /\ mutex = "none"
    /\ writerPc = "scan"
    /\ writerVal = << >>
    /\ writerIdx = 0
    /\ listener = None
    /\ renderPc = "lock"
    /\ drawn = << >>
    /\ stored = AllAbsent

\* Lines 16-21: a failed Scanner::new or find_adapter panics the thread in
\* unwrap, no adapter restarts the loop at once.
LogScan ==
    /\ writerPc = "scan"
    /\ \E newOk \in BOOLEAN : \E ok \in BOOLEAN : \E devs \in Buses :
          LET f == find_adapter(ok, devs)
          IN  writerPc' = IF ~newOk \/ f.tag = "Err" THEN "panicked"
                          ELSE IF f.val.some THEN "listen"
                          ELSE "scan"
    /\ UNCHANGED <<controllers, mutex, writerVal, writerIdx, listener,
                   renderPc, drawn, stored>>
    /\ UNCHANGED <<usbVars, scanVars, parseVars, packetVars>>

\* Line 22: adapter.listen().unwrap().
LogListen ==
    /\ writerPc = "listen"
    /\ \E cfg \in Configs : \E kd \in {{}, Interfaces} : \E in \in ListenInputs :
          LET o == listen(cfg, kd, [i \in Interfaces |-> 0], in)
          IN  /\ listener' = o.lst
              /\ writerPc' = IF o.ret = "Ok" THEN "read" ELSE "panicked"
    /\ UNCHANGED <<controllers, mutex, writerVal, writerIdx, renderPc, drawn, stored>>
    /\ UNCHANGED <<usbVars, scanVars, parseVars, packetVars>>

\* Line 24: while let Ok(controllers) = listener.read().
LogRead ==
    /\ writerPc = "read"
    /\ \E xfer \in Transfers :
          LET o == read(listener.v, xfer)
          IN  /\ listener' = Some(ListenerAfterRead(listener.v, o))
              /\ writerVal' = o.val
              /\ writerPc' = IF o.ret = "Ok" THEN "lock" ELSE "sleep"
    /\ UNCHANGED <<controllers, mutex, writerIdx, renderPc, drawn, stored>>
    /\ UNCHANGED <<usbVars, scanVars, parseVars, packetVars>>

\* Line 25: controllers_write.lock().unwrap()
LogWriterLock ==
    /\ writerPc = "lock"
    /\ CanLock(mutex)
    /\ mutex' = "writer"
    /\ writerPc' = "set"
    /\ writerIdx' = 0
    /\ UNCHANGED <<controllers, writerVal, listener, renderPc, drawn, stored>>
    /\ UNCHANGED <<usbVars, scanVars, parseVars, packetVars>>

\* Line 25: .set(controllers) copies the array into the Cell, port by port.
LogSet ==
    /\ writerPc = "set"
    /\ controllers' = [controllers EXCEPT ![writerIdx + 1] = writerVal[writerIdx + 1]]
    /\ writerIdx' = writerIdx + 1
    /\ writerPc' = IF writerIdx + 1 = Len(writerVal) THEN "unlock" ELSE "set"
    /\ stored' = IF writerIdx + 1 = Len(writerVal) THEN writerVal ELSE stored
    /\ UNCHANGED <<mutex, writerVal, listener, renderPc, drawn>>
    /\ UNCHANGED <<usbVars, scanVars, parseVars, packetVars>>

\* Line 25, end of the statement: the guard is dropped.
LogWriterUnlock ==
    /\ writerPc = "unlock"
    /\ mutex' = "none"
    /\ writerPc' = "read"
    /\ UNCHANGED <<controllers, writerVal, writerIdx, listener, renderPc, drawn, stored>>
    /\ UNCHANGED <<usbVars, scanVars, parseVars, packetVars>>

\* Lines 28-29: after a failed read the thread sleeps, the Listener goes out
\* of scope and the loop starts over.
LogSleep ==
    /\ writerPc = "sleep"
    /\ listener' = None
    /\ writerPc' = "scan"
    /\ UNCHANGED <<controllers, mutex, writerVal, writerIdx, renderPc, drawn, stored>>
    /\ UNCHANGED <<usbVars, scanVars, parseVars, packetVars>>

\* Line 35: controllers.lock().unwrap()
LogRenderLock ==
    /\ renderPc = "lock"
    /\ CanLock(mutex)
    /\ mutex' = "render"
    /\ renderPc' = "get"
    /\ drawn' = << >>
    /\ UNCHANGED <<controllers, writerPc, writerVal, writerIdx, listener, stored>>
    /\ UNCHANGED <<usbVars, scanVars, parseVars, packetVars>>

\* Line 35: .get() copies the array out of the Cell, port by port.
LogGet ==
    /\ renderPc = "get"
    /\ drawn' = Append(drawn, controllers[Len(drawn) + 1])
    /\ renderPc' = IF Len(drawn) + 1 = Len(controllers) THEN "draw" ELSE "get"
    /\ UNCHANGED <<controllers, mutex, writerPc, writerVal, writerIdx, listener, stored>>
    /\ UNCHANGED <<usbVars, scanVars, parseVars, packetVars>>

\* Lines 35-39: the copy is drawn, the guard is dropped, the loop sleeps.
LogDraw ==
    /\ renderPc = "draw"
    /\ mutex' = "none"
    /\ renderPc' = "lock"
    /\ UNCHANGED <<controllers, writerPc, writerVal, writerIdx, listener, drawn, stored>>
    /\ UNCHANGED <<usbVars, scanVars, parseVars, packetVars>>

InitLogSpec == InitLog /\ IdleUsb /\ IdleScan /\ IdleParse /\ IdlePacket

NextLog ==
    \/ LogScan \/ LogListen \/ LogRead \/ LogWriterLock \/ LogSet
    \/ LogWriterUnlock \/ LogSleep \/ LogRenderLock \/ LogGet \/ LogDraw

SpecLog == InitLogSpec /\ [][NextLog]_vars

\* The arrays a renderer may see: the initial one and what parse_packet makes
\* of one delivered packet.
Arrays == {AllAbsent} \cup {parse_packet(p) : p \in Packets}

\* C20: the Cell is written and copied only by the thread holding the mutex;
\* what the renderer has copied is a part of the array last stored, which is
\* the initial array or the array of one successful read; outside a `set`,
\* and so after a failed read, the Cell holds the array last stored.
C20_RendererSeesWholeArrays ==
    /\ stored \in Arrays
    /\ writerPc \in {"set", "unlock"} => mutex = "writer"
    /\ renderPc \in {"get", "draw"} =>
          /\ mutex = "render"
          /\ drawn = SubSeq(stored, 1, Len(drawn))
    /\ writerPc # "set" => controllers = stored
    /\ Len(drawn) = Len(AllAbsent) => drawn \in Arrays

\* The renderer has drawn the array of one read, a later read has stored
\* another one, and the read after that failed.
C20_Witness ==
    /\ writerPc = "sleep"
    /\ renderPc = "lock"
    /\ drawn \in Arrays \ {AllAbsent}
    /\ controllers \in Arrays \ {AllAbsent, drawn}

====
